---- MODULE Spec2Model ----
(***************************************************************************)
(* Model of cloudatcost_ansible_module/cac_server.py: the CACServer handle *)
(* (current-state map + pending-edit map), get_server, and commit, against *)
(* a remote CloudAtCost account reached through the CACPy API client.      *)
(*                                                                         *)
(* The module is Python 2 code: _updated_state is a plain dict, so the     *)
(* order in which commit iterates it is not the insertion order; the model *)
(* lets commit take the pending edits in any order.                        *)
(***************************************************************************)
EXTENDS Integers, Sequences, FiniteSets, TLC

VARIABLES
    servers,     \* the remote server list: api.get_server_info()['data']
    handle,      \* the CACServer object under use (NoHandle before lookup)
    setOrder,    \* history: the edited fields, in the order first set
    pc,          \* "start" | "idle" | "commit" (inside commit's for loop)
    todo,        \* commit's loop: the pending keys not yet iterated
    calls,       \* the API calls issued by the current / last operation
    outcome,     \* the last operation, how it ended and what it returned
    nCommits,    \* number of commit calls started
    nExternal,   \* number of changes made by another actor
    args,        \* the arguments of the last function call
    templates,   \* the template catalog: api.get_template_info()['data']
    resolved,    \* history: the template resolutions made by this process
    environ,     \* os.environ: the CAC_API_* variables that are set
    api          \* the CACPy client that get_api created (NoApi before)

vars == <<servers, handle, setOrder, pc, todo, calls, outcome,
          nCommits, nExternal, args, templates, resolved, environ, api>>

\* What the operations on a CACServer leave alone
libVars == <<args, templates, resolved, environ, api>>

----------------------------------------------------------------------------
(* Bounds of the exploration.                                              *)
MaxCommits == 2
MaxExternal == 1
\* The length of the server lists that lookups are made on
MaxServers == 3
\* The length of the template catalogs made of the pool's entries
MaxCatalog == 2
\* The number of resolutions and lookups of one process
MaxOps == 2

----------------------------------------------------------------------------
(* Python values.                                                          *)

\* Python's None (a value distinct from every string, also from 'None').
None == "<None>"

\* str(x) for the values passed as server_id: strings map to themselves,
\* None to the four letters 'None'.
Str(x) == IF x = None THEN "None" ELSE x

\* The decimal digits, Digits[d + 1] being the digit d
Digits == <<"0", "1", "2", "3", "4", "5", "6", "7", "8", "9">>

\* str(n) for an int n >= 0: its decimal digits, without leading zeros
RECURSIVE StrOfInt(_)
StrOfInt(n) ==
    IF n < 10 THEN Digits[n + 1]
    ELSE StrOfInt(n \div 10) \o Digits[(n % 10) + 1]

\* The elements of a tuple
Range(seq) == {seq[i] : i \in 1..Len(seq)}

EmptyDict == [k \in {} |-> None]

\* d[k] = v on a dict
DictPut(d, k, v) == [x \in DOMAIN d \cup {k} |-> IF x = k THEN v ELSE d[x]]

\* d.get(k, default)
DictGet(d, k, default) == IF k \in DOMAIN d THEN d[k] ELSE default

----------------------------------------------------------------------------
(* The remote account (after the fixtures of tests/conftest.py).           *)

Server1 ==
    [sid |-> "123456789", servername |-> "c123456789-cloudpro-123456789",
     label |-> "serverlabel", rdns |-> "server.test.example",
     status |-> "Powered On", mode |-> "Normal", template |-> "CentOS-7-64bit"]

Server2 ==
    [sid |-> "000000001", servername |-> "c000000001-cloudpro-000000001",
     label |-> "poweredoff", rdns |-> "poweredoff.test.example",
     status |-> "Powered Off", mode |-> "Normal", template |-> "CentOS-7-64bit"]

\* The freshly built server of the post-build fixture, not yet labelled:
\* CloudAtCost lists a server that was never labelled with label null (the
\* inventory script skips the servers whose label is empty).
NewServer ==
    [sid |-> "012345678", servername |-> "c012345678-cloudpro-012345678",
     label |-> None, rdns |-> "server.test.example",
     status |-> "Installing", mode |-> "Normal", template |-> "CentOS-7-64bit"]

\* The account's server list: the two servers of V1_LISTSERVERS_RESPONSE
\* and the new server that V1_LISTSERVERS_RESPONSE_POST_BUILD adds
AccountServers == <<Server1, Server2, NewServer>>

\* The second server labelled 'serverlabel' of the post-build fixture
RelabelledServer ==
    [sid |-> "987654321", servername |-> "c987654321-cloudpro-987654321",
     label |-> "serverlabel", rdns |-> "server.test.example",
     status |-> "Installing", mode |-> "Normal", template |-> "CentOS-7-64bit"]

\* The template catalog of the fixtures
V1_LIST_TEMPLATES_RESPONSE ==
    << [ce_id |-> "1",  name |-> "CentOS 6.7 64bit"],
       [ce_id |-> "3",  name |-> "Debian-8-64bit"],
       [ce_id |-> "9",  name |-> "Windows 7 64bit"],
       [ce_id |-> "24", name |-> "Windows 2008 R2 64bit"],
       [ce_id |-> "25", name |-> "Windows 2012 R2 64bit"],
       [ce_id |-> "26", name |-> "CentOS-7-64bit"],
       [ce_id |-> "27", name |-> "Ubuntu-14.04.1-LTS-64bit"],
       [ce_id |-> "74", name |-> "FreeBSD-10-1-64bit"] >>

\* No function has been called yet
NoArgs == [k \in {} |-> None]

\* A server dict that carries no sid (CACServer can be constructed on any
\* dict that has a 'template' key).
ServerWithoutSid ==
    [sid |-> None, servername |-> None, label |-> "serverlabel",
     rdns |-> None, status |-> None, mode |-> None, template |-> None]

----------------------------------------------------------------------------
(* API calls, as recorded by the mock: name and keyword arguments.         *)

Call(name, arg, sid) == [name |-> name, arg |-> arg, server_id |-> sid]

GetServerInfo == Call("get_server_info", None, None)

\* No client yet
NoApi == [found |-> FALSE]

\* CACPy(email, api_key): the client holds the credentials it was given
CACPy(email, api_key) == [found |-> TRUE, email |-> email, key |-> api_key]

ModifyingCalls ==
    {"rename_server", "change_hostname", "set_run_mode", "power_on_server",
     "power_off_server", "reset_server", "server_delete", "server_build"}

PowerCalls == {"power_on_server", "power_off_server", "reset_server"}

Responses == {"ok", "error"}

\* check_ok: raises CacApiError unless the response's status is 'ok'
check_ok(response) == response = "ok"

\* The remote effect of a call that the API answered with status ok.
ApiEffect(list, call) ==
    LET upd(s) ==
            CASE call.name = "rename_server"    -> [s EXCEPT !.label = call.arg]
              [] call.name = "change_hostname"  -> [s EXCEPT !.rdns = call.arg]
              [] call.name = "set_run_mode"     -> [s EXCEPT !.mode = call.arg]
              [] call.name = "power_on_server"  -> [s EXCEPT !.status = "Powered On"]
              [] call.name = "power_off_server" -> [s EXCEPT !.status = "Powered Off"]
              [] OTHER                          -> s
        kept == IF call.name = "server_delete"
                THEN SelectSeq(list, LAMBDA s : s.sid # call.server_id)
                ELSE list
    IN  [i \in 1..Len(kept) |->
            IF kept[i].sid = call.server_id THEN upd(kept[i]) ELSE kept[i]]

----------------------------------------------------------------------------
(* CACServer.                                                              *)

NoHandle == [found |-> FALSE]

\* namedtuple CACTemplate(desc, template_id), built positionally
CACTemplate(desc, template_id) == [desc |-> desc, template_id |-> template_id]

\* CACServer.__init__(api, server): copies the dict, starts with no pending
\* edit, and wraps a non-null template as CACTemplate(api, server['template']).
CACServer(server) ==
    [found |-> TRUE,
     current_state |->
        IF server.template # None
        THEN [server EXCEPT !.template = CACTemplate("api", server.template)]
        ELSE server,
     updated_state |-> EmptyDict]

\* The keys of CACServer._modify_functions
_modify_functions == {"label", "rdns", "status", "mode"}

\* The field names used with set: the editable ones and two others
FieldNames == _modify_functions \cup {"cpu", "sid"}

\* The values assigned in edits: for each field the value of the test
\* fixture's server, the new value of the tests, and for status every
\* documented value plus one that the dispatch does not know.
EditValues(f) ==
    CASE f = "label"  -> {"serverlabel", "testing"}
      [] f = "rdns"   -> {"server.test.example", "server.test.com"}
      [] f = "mode"   -> {"Normal", "normal"}
      [] f = "status" -> {"Powered On", "on", "Powered Off", "off",
                          "Restarted", "restart", "Deleted", "delete",
                          "Pending On"}
      [] OTHER        -> {"16"}

\* Mutant of getattr: the last-fetched value is preferred to the pending one.
getattr_CurrentFirst(h, item) ==
    IF item \in DOMAIN h.current_state /\ h.current_state[item] # None
    THEN h.current_state[item]
    ELSE DictGet(h.updated_state, item, None)

\* __getattr__: the pending value, else the current one; None stands for
\* the AttributeError raised when neither map holds a non-None value.
getattr(h, item) ==
    DictGet(h.updated_state, item,
            IF item \in DOMAIN h.current_state THEN h.current_state[item] ELSE None)

\* Mutant of SidUnset: commit does not look at the sid.
SidUnset_Never(h) == FALSE

\* commit's guard "if self.sid is None": reading self.sid goes through
\* __getattr__, which raises for a value of None
SidUnset(h) == getattr(h, "sid") = None

\* Mutant of setattr: the key is not checked against _modify_functions.
setattr_AnyKey(h, key, value) ==
    [raised |-> FALSE,
     h |-> [h EXCEPT !.updated_state = DictPut(h.updated_state, key, value)]]

\* __setattr__: the (raised, new handle) pair
setattr(h, key, value) ==
    IF key \in _modify_functions
    THEN [raised |-> FALSE,
          h |-> [h EXCEPT !.updated_state = DictPut(h.updated_state, key, value)]]
    ELSE [raised |-> TRUE, h |-> h]

\* Mutant of _set_label: the two arguments of rename_server exchanged.
_set_label_Swapped(h, value) ==
    <<Call("rename_server", h.current_state.sid, value)>>

\* _set_label, _set_rdns, _set_mode, _set_status: the calls each issues
_set_label(h, value) == <<Call("rename_server", value, h.current_state.sid)>>

_set_rdns(h, value) == <<Call("change_hostname", value, h.current_state.sid)>>

_set_mode(h, value) == <<Call("set_run_mode", value, h.current_state.sid)>>

\* Mutant of _set_status: the power-off branch tests the power-on words.
_set_status_OffAsOn(h, value) ==
    IF value \in {"Powered On", "on", "Powered Off", "off"}
    THEN <<Call("power_on_server", None, h.current_state.sid)>>
    ELSE IF value \in {"Restarted", "restart"}
    THEN <<Call("reset_server", None, h.current_state.sid)>>
    ELSE << >>

\* Mutant of _set_status: a value that is none of the known words resets
\* the server.
_set_status_UnknownAsReset(h, value) ==
    IF value \in {"Powered On", "on"}
    THEN <<Call("power_on_server", None, h.current_state.sid)>>
    ELSE IF value \in {"Powered Off", "off"}
    THEN <<Call("power_off_server", None, h.current_state.sid)>>
    ELSE <<Call("reset_server", None, h.current_state.sid)>>

_set_status(h, value) ==
    IF value \in {"Powered On", "on"}
    THEN <<Call("power_on_server", None, h.current_state.sid)>>
    ELSE IF value \in {"Powered Off", "off"}
    THEN <<Call("power_off_server", None, h.current_state.sid)>>
    ELSE IF value \in {"Restarted", "restart"}
    THEN <<Call("reset_server", None, h.current_state.sid)>>
    ELSE << >>

\* self._modify_functions[item](self, value)
ModifyCalls(h, item, value) ==
    CASE item = "label"  -> _set_label(h, value)
      [] item = "rdns"   -> _set_rdns(h, value)
      [] item = "status" -> _set_status(h, value)
      [] item = "mode"   -> _set_mode(h, value)

----------------------------------------------------------------------------
(* get_server.                                                             *)

\* The generator's condition, for one entry of the list
Matches(server, server_id, label, server_name) ==
    \/ server.sid = Str(server_id)
    \/ server.servername = server_name
    \/ server.label = label

\* next(...) over the list: the index of the first match, 0 on StopIteration
FirstMatch(list, server_id, label, server_name) ==
    LET hits == {i \in 1..Len(list) : Matches(list[i], server_id, label, server_name)}
    IN  IF hits = {} THEN 0 ELSE CHOOSE i \in hits : \A j \in hits : i <= j

get_server(list, server_id, label, server_name) ==
    LET i == FirstMatch(list, server_id, label, server_name)
    IN  IF i = 0 THEN NoHandle ELSE CACServer(list[i])

----------------------------------------------------------------------------
(* Operations.                                                             *)

\* What the last operation was called with, how it ended ("ok", "running"
\* or the exception raised) and the CACServer it returned.
Outcome(op, key, value, status, ret) ==
    [op |-> op, key |-> key, value |-> value, status |-> status, ret |-> ret]

Init ==
    /\ servers = AccountServers
    /\ handle = NoHandle
    /\ setOrder = << >>
    /\ pc = "start"
    /\ todo = {}
    /\ calls = << >>
    /\ outcome = Outcome("none", None, None, "ok", NoHandle)
    /\ nCommits = 0
    /\ nExternal = 0
    /\ args = NoArgs
    /\ templates = V1_LIST_TEMPLATES_RESPONSE
    /\ resolved = << >>
    /\ environ = EmptyDict
    /\ api = NoApi

\* server = get_server(api, server_id=sid)
Lookup ==
    /\ pc = "start"
    /\ \E sid \in {"123456789", "000000001"} :
        LET h == get_server(servers, sid, None, None)
        IN  /\ handle' = h
            /\ pc' = IF h.found THEN "idle" ELSE "start"
            /\ calls' = <<GetServerInfo>>
            /\ outcome' = Outcome("get_server", None, None, "ok", h)
    /\ UNCHANGED <<servers, setOrder, todo, nCommits, nExternal>>
    /\ UNCHANGED libVars

\* server = CACServer(api, {...}) on a dict without a sid
Construct ==
    /\ pc = "start"
    /\ handle' = CACServer(ServerWithoutSid)
    /\ pc' = "idle"
    /\ calls' = << >>
    /\ outcome' = Outcome("construct", None, None, "ok", NoHandle)
    /\ UNCHANGED <<servers, setOrder, todo, nCommits, nExternal>>
    /\ UNCHANGED libVars

\* server.<key> = value.  The edits of a handle are made before it is
\* committed (look up, edit, commit).
Set ==
    /\ pc = "idle"
    /\ nCommits = 0
    /\ \E key \in FieldNames : \E value \in EditValues(key) :
        LET r == setattr(handle, key, value)
        IN  /\ handle' = r.h
            /\ outcome' = Outcome("set", key, value,
                                   IF r.raised THEN "AttributeError" ELSE "ok", NoHandle)
    /\ calls' = << >>
    /\ UNCHANGED <<servers, setOrder, pc, todo, nCommits, nExternal>>
    /\ UNCHANGED libVars

\* The value each field is edited to where the order of the edits is
\* followed (test_change_everything).
OrderValues(f) ==
    CASE f = "label"  -> "testing"
      [] f = "rdns"   -> "server.test.com"
      [] f = "mode"   -> "normal"
      [] f = "status" -> "Restarted"

\* server.<key> = value, with the order of the first edits written down
SetInOrder ==
    /\ pc = "idle"
    /\ nCommits = 0
    /\ \E key \in _modify_functions :
        LET r == setattr(handle, key, OrderValues(key))
        IN  /\ handle' = r.h
            /\ outcome' = Outcome("set", key, OrderValues(key),
                                   IF r.raised THEN "AttributeError" ELSE "ok", NoHandle)
            /\ setOrder' = IF r.raised \/ \E i \in 1..Len(setOrder) : setOrder[i] = key
                           THEN setOrder
                           ELSE Append(setOrder, key)
    /\ calls' = << >>
    /\ UNCHANGED <<servers, pc, todo, nCommits, nExternal>>
    /\ UNCHANGED libVars

\* Mutant of CommitBegin: the check before the loop also compares the
\* fetched label with the handle's and fails when another actor changed it.
CommitBegin_ChecksFields ==
    /\ pc = "idle"
    /\ nCommits < MaxCommits
    /\ nCommits' = nCommits + 1
    /\ IF SidUnset(handle)
       THEN /\ calls' = << >>
            /\ outcome' = Outcome("commit", None, None, "AttributeError", NoHandle)
            /\ UNCHANGED <<pc, todo>>
       ELSE LET fetched == get_server(servers, getattr(handle, "sid"), None, None)
            IN  /\ calls' = <<GetServerInfo>>
                /\ IF ~fetched.found
                      \/ fetched.current_state.label # handle.current_state.label
                   THEN /\ outcome' = Outcome("commit", None, None, "LookupError", NoHandle)
                        /\ UNCHANGED <<pc, todo>>
                   ELSE /\ outcome' = Outcome("commit", None, None, "running", NoHandle)
                        /\ pc' = "commit"
                        /\ todo' = DOMAIN handle.updated_state
    /\ UNCHANGED <<servers, handle, setOrder, nExternal>>
    /\ UNCHANGED libVars

\* commit(), up to the for loop: the sid check and the existence check
CommitBegin ==
    /\ pc = "idle"
    /\ nCommits < MaxCommits
    /\ nCommits' = nCommits + 1
    /\ IF SidUnset(handle)
       THEN \* self.sid raises AttributeError
            /\ calls' = << >>
            /\ outcome' = Outcome("commit", None, None, "AttributeError", NoHandle)
            /\ UNCHANGED <<pc, todo>>
       ELSE /\ calls' = <<GetServerInfo>>
            /\ IF ~get_server(servers, getattr(handle, "sid"), None, None).found
               THEN /\ outcome' = Outcome("commit", None, None, "LookupError", NoHandle)
                    /\ UNCHANGED <<pc, todo>>
               ELSE /\ outcome' = Outcome("commit", None, None, "running", NoHandle)
                    /\ pc' = "commit"
                    /\ todo' = DOMAIN handle.updated_state
    /\ UNCHANGED <<servers, handle, setOrder, nExternal>>
    /\ UNCHANGED libVars

\* Mutant of CommitEdit: the failure of a call is noted but the loop goes on.
CommitEdit_ContinuesAfterError ==
    /\ pc = "commit"
    /\ \E item \in todo : \E response \in Responses :
        LET issued == ModifyCalls(handle, item, handle.updated_state[item])
        IN  /\ calls' = calls \o issued
            /\ todo' = todo \ {item}
            /\ IF issued = << >>
               THEN UNCHANGED <<servers, outcome>>
               ELSE IF check_ok(response)
               THEN /\ servers' = ApiEffect(servers, issued[1])
                    /\ UNCHANGED outcome
               ELSE /\ outcome' = Outcome("commit", None, None, "CacApiError", NoHandle)
                    /\ UNCHANGED servers
    /\ UNCHANGED <<handle, setOrder, pc, nCommits, nExternal>>
    /\ UNCHANGED libVars

\* One iteration of commit's for loop: the dict yields any of its remaining
\* items; its modify function issues at most one call and checks the answer.
CommitEdit ==
    /\ pc = "commit"
    /\ \E item \in todo : \E response \in Responses :
        LET issued == ModifyCalls(handle, item, handle.updated_state[item])
        IN  /\ calls' = calls \o issued
            /\ IF issued = << >>
               THEN /\ todo' = todo \ {item}
                    /\ UNCHANGED <<servers, pc, outcome>>
               ELSE IF check_ok(response)
               THEN /\ servers' = ApiEffect(servers, issued[1])
                    /\ todo' = todo \ {item}
                    /\ UNCHANGED <<pc, outcome>>
               ELSE /\ outcome' = Outcome("commit", None, None, "CacApiError", NoHandle)
                    /\ pc' = "idle"
                    /\ todo' = {}
                    /\ UNCHANGED servers
    /\ UNCHANGED <<handle, setOrder, nCommits, nExternal>>
    /\ UNCHANGED libVars

\* Mutant of CommitReturn: the handle takes the state of the record that is
\* returned and drops its pending edits.
CommitReturn_RefreshesHandle ==
    /\ pc = "commit"
    /\ todo = {}
    /\ calls' = Append(calls, GetServerInfo)
    /\ outcome' = Outcome("commit", None, None, "ok",
                          get_server(servers, getattr(handle, "sid"), None, None))
    /\ handle' = IF outcome'.ret.found THEN outcome'.ret ELSE handle
    /\ pc' = "idle"
    /\ UNCHANGED <<servers, setOrder, todo, nCommits, nExternal>>
    /\ UNCHANGED libVars

\* commit(), after the loop: return get_server(self.api, server_id=self.sid)
CommitReturn ==
    /\ pc = "commit"
    /\ todo = {}
    /\ calls' = Append(calls, GetServerInfo)
    /\ outcome' = Outcome("commit", None, None, "ok",
                          get_server(servers, getattr(handle, "sid"), None, None))
    /\ pc' = "idle"
    /\ UNCHANGED <<servers, handle, setOrder, todo, nCommits, nExternal>>
    /\ UNCHANGED libVars

\* Another actor renames, or deletes, the server the handle stands for.
ExternalRename ==
    /\ pc \in {"idle", "commit"}
    /\ nExternal < MaxExternal
    /\ \E i \in 1..Len(servers) :
        /\ servers[i].sid = handle.current_state.sid
        /\ servers' = [servers EXCEPT ![i].label = "renamed"]
    /\ nExternal' = nExternal + 1
    /\ UNCHANGED <<handle, setOrder, pc, todo, calls, outcome, nCommits>>
    /\ UNCHANGED libVars

ExternalDelete ==
    /\ pc \in {"idle", "commit"}
    /\ nExternal < MaxExternal
    /\ \E i \in 1..Len(servers) : servers[i].sid = handle.current_state.sid
    /\ servers' = SelectSeq(servers, LAMBDA s : s.sid # handle.current_state.sid)
    /\ nExternal' = nExternal + 1
    /\ UNCHANGED <<handle, setOrder, pc, todo, calls, outcome, nCommits>>
    /\ UNCHANGED libVars

Next ==
    \/ Lookup
    \/ Construct
    \/ Set
    \/ CommitBegin
    \/ CommitEdit
    \/ CommitReturn
    \/ ExternalRename
    \/ ExternalDelete

Spec == Init /\ [][Next]_vars

\* value = server.<item>
Get ==
    /\ pc = "idle"
    /\ \E item \in FieldNames :
        outcome' = Outcome("get", item, getattr(handle, item),
                           IF getattr(handle, item) = None THEN "AttributeError" ELSE "ok",
                           NoHandle)
    /\ calls' = << >>
    /\ UNCHANGED <<servers, handle, setOrder, pc, todo, nCommits, nExternal>>
    /\ UNCHANGED libVars

\* Mutant of Delete: delete goes through commit's loop and sends the
\* pending edits before the delete call.
Delete_SendsPendingEdits ==
    /\ pc = "idle"
    /\ ~SidUnset(handle)
    /\ calls' = (IF "label" \in DOMAIN handle.updated_state
                 THEN _set_label(handle, handle.updated_state["label"]) ELSE << >>)
                \o <<Call("server_delete", None, getattr(handle, "sid"))>>
    /\ servers' = ApiEffect(servers, Call("server_delete", None, getattr(handle, "sid")))
    /\ outcome' = Outcome("delete", None, "ok", "ok", NoHandle)
    /\ UNCHANGED <<handle, setOrder, pc, todo, nCommits, nExternal>>
    /\ UNCHANGED libVars

\* server.delete(): check_ok(self.api.server_delete(server_id=self.sid)).
\* The outcome keeps the status of the API's response as its value.
Delete ==
    /\ pc = "idle"
    /\ IF SidUnset(handle)
       THEN \* self.sid raises AttributeError
            /\ calls' = << >>
            /\ outcome' = Outcome("delete", None, None, "AttributeError", NoHandle)
            /\ UNCHANGED servers
       ELSE \E response \in Responses :
            /\ calls' = <<Call("server_delete", None, getattr(handle, "sid"))>>
            /\ IF check_ok(response)
               THEN /\ servers' = ApiEffect(servers, calls'[1])
                    /\ outcome' = Outcome("delete", None, response, "ok", NoHandle)
               ELSE /\ outcome' = Outcome("delete", None, response, "CacApiError", NoHandle)
                    /\ UNCHANGED servers
    /\ UNCHANGED <<handle, setOrder, pc, todo, nCommits, nExternal>>
    /\ UNCHANGED libVars

\* server = get_server(api, server_id=sid), for every server of the account
LookupAny ==
    /\ pc = "start"
    /\ \E sid \in {"123456789", "000000001", "012345678"} :
        LET h == get_server(servers, sid, None, None)
        IN  /\ handle' = h
            /\ pc' = IF h.found THEN "idle" ELSE "start"
            /\ calls' = <<GetServerInfo>>
            /\ outcome' = Outcome("get_server", None, None, "ok", h)
    /\ UNCHANGED <<servers, setOrder, todo, nCommits, nExternal>>
    /\ UNCHANGED libVars

\* A handle read, edited and deleted, without commit
NextHandle ==
    \/ LookupAny
    \/ Construct
    \/ Set
    \/ Get
    \/ Delete

SpecHandle == Init /\ [][NextHandle]_vars

\* The account with the unlabelled server listed before the others
UnlabelledFirst == <<NewServer, Server1, Server2>>

InitUnlabelledFirst ==
    /\ servers = UnlabelledFirst
    /\ handle = NoHandle
    /\ setOrder = << >>
    /\ pc = "start"
    /\ todo = {}
    /\ calls = << >>
    /\ outcome = Outcome("none", None, None, "ok", NoHandle)
    /\ nCommits = 0
    /\ nExternal = 0
    /\ args = NoArgs
    /\ templates = V1_LIST_TEMPLATES_RESPONSE
    /\ resolved = << >>
    /\ environ = EmptyDict
    /\ api = NoApi

\* server = get_server(api, label=label)
LookupByLabel ==
    /\ pc = "start"
    /\ \E label \in {"serverlabel", "poweredoff"} :
        LET h == get_server(servers, None, label, None)
        IN  /\ handle' = h
            /\ pc' = IF h.found THEN "idle" ELSE "start"
            /\ calls' = <<GetServerInfo>>
            /\ outcome' = Outcome("get_server", None, label, "ok", h)
    /\ UNCHANGED <<servers, setOrder, todo, nCommits, nExternal>>
    /\ UNCHANGED libVars

\* A handle looked up by label, edited and committed, with no other actor
NextByLabel ==
    \/ LookupByLabel
    \/ Set
    \/ CommitBegin
    \/ CommitEdit
    \/ CommitReturn

SpecByLabel == InitUnlabelledFirst /\ [][NextByLabel]_vars

----------------------------------------------------------------------------
(* Lookups on any server list.                                             *)

\* The servers that a list is made of
ServerPool == {Server1, Server2, NewServer, RelabelledServer}

\* The lists of at most MaxServers different servers
ServerLists ==
    {l \in UNION {[1..n -> ServerPool] : n \in 0..MaxServers} :
        \A i, j \in 1..Len(l) : l[i] = l[j] => i = j}

InitLookup ==
    /\ servers \in ServerLists
    /\ handle = NoHandle
    /\ setOrder = << >>
    /\ pc = "start"
    /\ todo = {}
    /\ calls = << >>
    /\ outcome = Outcome("none", None, None, "ok", NoHandle)
    /\ nCommits = 0
    /\ nExternal = 0
    /\ args = NoArgs
    /\ templates = V1_LIST_TEMPLATES_RESPONSE
    /\ resolved = << >>
    /\ environ = EmptyDict
    /\ api = NoApi

\* get_server(api, server_id, label, server_name), each criterion given or
\* left at its default of None
Find ==
    /\ pc = "start"
    /\ \E server_id \in {None, "123456789", "000000001", "999999999"} :
       \E label \in {None, "serverlabel", "poweredoff"} :
       \E server_name \in {None, "c123456789-cloudpro-123456789"} :
        /\ args' = [server_id |-> server_id, label |-> label,
                    server_name |-> server_name]
        /\ IF server_id = None /\ label = None /\ server_name = None
           THEN \* the assert of line 204
                /\ calls' = << >>
                /\ outcome' = Outcome("get_server", None, None, "AssertionError", NoHandle)
           ELSE /\ calls' = <<GetServerInfo>>
                /\ outcome' = Outcome("get_server", None, None, "ok",
                                      get_server(servers, server_id, label, server_name))
    /\ UNCHANGED <<servers, handle, setOrder, pc, todo, nCommits, nExternal,
                   templates, resolved, environ, api>>

\* The parameters of the module that select the server: server_id is an
\* int, label a string, and a parameter that is not given reads as None.
ModuleParams ==
    LET ids    == {123456789, 999999999, 1}
        labels == {"serverlabel", "poweredoff"}
    IN  {EmptyDict}
          \cup {[server_id |-> n] : n \in ids}
          \cup {[label |-> l] : l \in labels}
          \cup {[server_id |-> n, label |-> l] : n \in ids, l \in labels}

\* main(): server = get_server(api, server_id=server_id, label=label)
ModuleGetServer ==
    /\ pc = "start"
    /\ \E params \in ModuleParams :
        LET server_id == IF "server_id" \in DOMAIN params
                         THEN StrOfInt(params["server_id"]) ELSE None
            label     == DictGet(params, "label", None)
        IN  /\ args' = params
            /\ IF server_id = None /\ label = None
               THEN /\ calls' = << >>
                    /\ outcome' = Outcome("main", None, None, "AssertionError", NoHandle)
               ELSE /\ calls' = <<GetServerInfo>>
                    /\ outcome' = Outcome("main", None, None, "ok",
                                          get_server(servers, server_id, label, None))
    /\ UNCHANGED <<servers, handle, setOrder, pc, todo, nCommits, nExternal,
                   templates, resolved, environ, api>>

NextLookup ==
    \/ Find
    \/ ModuleGetServer

SpecLookup == InitLookup /\ [][NextLookup]_vars

----------------------------------------------------------------------------
(* CACTemplate.get_template.                                               *)

\* The catalog entries that the catalogs are made of: two of the fixture,
\* one that repeats a description and one whose description is an id.
TemplatePool ==
    {[ce_id |-> "26", name |-> "CentOS-7-64bit"],
     [ce_id |-> "27", name |-> "Ubuntu-14.04.1-LTS-64bit"],
     [ce_id |-> "74", name |-> "Ubuntu-14.04.1-LTS-64bit"],
     [ce_id |-> "3",  name |-> "27"]}

\* The catalogs: the fixture's, and those of at most MaxCatalog different
\* entries of the pool
Catalogs ==
    {V1_LIST_TEMPLATES_RESPONSE}
      \cup {l \in UNION {[1..n -> TemplatePool] : n \in 1..MaxCatalog} :
              \A i, j \in 1..Len(l) : l[i] = l[j] => i = j}

GetTemplateInfo == Call("get_template_info", None, None)

\* No CACTemplate (the call raised)
NoTemplate == [desc |-> None, template_id |-> None]

\* The lookup values: None, an int, a string, or a CACTemplate that an
\* earlier resolution returned
LookupValues ==
    {[none |-> TRUE]}
      \cup {[int |-> n] : n \in {26, 27, 5}}
      \cup {[str |-> x] : x \in {"27", "Ubuntu-14.04.1-LTS-64bit", "nosuch", ""}}
      \cup {[template |-> resolved[k].template] :
               k \in {i \in 1..Len(resolved) : resolved[i].status = "ok"}}

\* Lines 237-240: an instance is replaced by its template_id, an int by
\* its str()
TemplateKey(lookup) ==
    IF "template" \in DOMAIN lookup THEN lookup.template.template_id
    ELSE IF "int" \in DOMAIN lookup THEN StrOfInt(lookup.int)
    ELSE lookup.str

\* Mutant of get_template: a lookup that matches nothing gets the first
\* entry of the catalog.
get_template_FirstWhenMissing(catalog, lookup) ==
    LET key  == TemplateKey(lookup)
        hits == {i \in 1..Len(catalog) :
                    catalog[i].ce_id = key \/ catalog[i].name = key}
        i    == IF hits = {} THEN 1 ELSE CHOOSE i \in hits : \A j \in hits : i <= j
    IN  [status |-> "ok",
         template |-> CACTemplate(catalog[i].name, catalog[i].ce_id)]

\* Mutant of get_template: the pair is built as (ce_id, name).
get_template_SwappedPair(catalog, lookup) ==
    LET key  == TemplateKey(lookup)
        hits == {i \in 1..Len(catalog) :
                    catalog[i].ce_id = key \/ catalog[i].name = key}
        i    == CHOOSE i \in hits : \A j \in hits : i <= j
    IN  IF hits = {}
        THEN [status |-> "LookupError", template |-> NoTemplate]
        ELSE [status |-> "ok",
              template |-> CACTemplate(catalog[i].ce_id, catalog[i].name)]

\* get_template for a lookup that is not None: next(...) over the catalog,
\* LookupError on StopIteration, cls(name, ce_id) of the first match
get_template(catalog, lookup) ==
    LET key  == TemplateKey(lookup)
        hits == {i \in 1..Len(catalog) :
                    catalog[i].ce_id = key \/ catalog[i].name = key}
        i    == CHOOSE i \in hits : \A j \in hits : i <= j
    IN  IF hits = {}
        THEN [status |-> "LookupError", template |-> NoTemplate]
        ELSE [status |-> "ok",
              template |-> CACTemplate(catalog[i].name, catalog[i].ce_id)]

InitTemplate ==
    /\ servers = AccountServers
    /\ handle = NoHandle
    /\ setOrder = << >>
    /\ pc = "start"
    /\ todo = {}
    /\ calls = << >>
    /\ outcome = Outcome("none", None, None, "ok", NoHandle)
    /\ nCommits = 0
    /\ nExternal = 0
    /\ args = NoArgs
    /\ templates \in Catalogs
    /\ resolved = << >>
    /\ environ = EmptyDict
    /\ api = NoApi

\* The lookups and resolutions made so far by the process
nOps ==
    Len(resolved) + Cardinality({i \in 1..Len(calls) : calls[i] = GetServerInfo})

\* CACTemplate.get_template(api, lookup).  The calls of the process are
\* kept in one log.
Resolve ==
    /\ nOps < MaxOps
    /\ \E lookup \in LookupValues :
        /\ args' = lookup
        /\ IF "none" \in DOMAIN lookup
           THEN \* the assert of line 236
                /\ calls' = calls
                /\ resolved' = Append(resolved,
                      [lookup |-> lookup, status |-> "AssertionError",
                       template |-> NoTemplate])
                /\ outcome' = Outcome("get_template", None, None, "AssertionError", NoHandle)
           ELSE LET r == get_template(templates, lookup)
                IN  /\ calls' = Append(calls, GetTemplateInfo)
                    /\ resolved' = Append(resolved,
                          [lookup |-> lookup, status |-> r.status,
                           template |-> r.template])
                    /\ outcome' = Outcome("get_template", None, None, r.status, NoHandle)
    /\ UNCHANGED <<servers, handle, setOrder, pc, todo, nCommits, nExternal,
                   templates, environ, api>>

\* get_server(api, server_id=sid) in the same process
ResolverLookup ==
    /\ nOps < MaxOps
    /\ \E sid \in {"123456789", "999999999"} :
        /\ args' = [server_id |-> sid, label |-> None, server_name |-> None]
        /\ calls' = Append(calls, GetServerInfo)
        /\ outcome' = Outcome("get_server", None, None, "ok",
                              get_server(servers, sid, None, None))
    /\ UNCHANGED <<servers, handle, setOrder, pc, todo, nCommits, nExternal,
                   templates, resolved, environ, api>>

NextTemplate ==
    \/ Resolve
    \/ ResolverLookup

SpecTemplate == InitTemplate /\ [][NextTemplate]_vars

----------------------------------------------------------------------------
(* CACServer.build_server.                                                 *)

_required_build_params == <<"cpu", "ram", "disk", "template">>

\* The values that build_server is called with, by keyword
BuildValues ==
    [cpu : {0, 1, 16, 17}, ram : {1000, 1024}, disk : {10},
     template : {5, 27}, label : {"buildtest"}, wait : BOOLEAN,
     wait_timeout : {30}]

\* The keyword arguments of a call: a parameter of build_server that the
\* caller has no value for is passed as None (main passes
\* module.params.get(...)), here a key that is left out; label, wait and
\* wait_timeout are keywords that the caller may add (as the tests do).
BuildParams ==
    {[k \in given |-> v[k]] :
        given \in SUBSET {"cpu", "ram", "disk", "template", "label", "wait",
                          "wait_timeout"},
        v \in BuildValues}

\* not locals()[param]: None and 0 are false
Falsy(params, param) == param \notin DOMAIN params \/ params[param] = 0

\* " ".join(names)
RECURSIVE Join(_)
Join(names) ==
    IF names = << >> THEN ""
    ELSE IF Len(names) = 1 THEN names[1]
    ELSE names[1] \o " " \o Join(Tail(names))

\* api.server_build(cpu, ram, disk, os_template), positional
ServerBuild(cpu, ram, disk, os_template) ==
    Call("server_build", <<cpu, ram, disk, os_template>>, None)

\* The 'result' of the build response
BuildResults == {"successful", "failed"}

InitBuild ==
    /\ servers = AccountServers
    /\ handle = NoHandle
    /\ setOrder = << >>
    /\ pc = "start"
    /\ todo = {}
    /\ calls = << >>
    /\ outcome = Outcome("none", None, None, "ok", NoHandle)
    /\ nCommits = 0
    /\ nExternal = 0
    /\ args = NoArgs
    /\ templates = V1_LIST_TEMPLATES_RESPONSE
    /\ resolved = << >>
    /\ environ = EmptyDict
    /\ api = NoApi

\* The response of server_build, by its 'result' (V1_BUILD_SUCCESS)
BuildResponse(result) ==
    [found |-> TRUE, result |-> result,
     servername |-> "c012345678-cloudpro-012345678"]

\* Mutant of build_server: the response is returned whatever its result.
build_server_IgnoresResult(params, result) ==
    [key |-> << >>, value |-> result, status |-> "ok",
     ret |-> BuildResponse(result),
     calls |-> <<GetTemplateInfo,
                 ServerBuild(1, 1024, 10, CACTemplate("Ubuntu-14.04.1-LTS-64bit", "27"))>>]

\* CACServer.build_server(api, cpu, ram, disk, template): the names it
\* reports (key), its message or the response's 'result' (value), how it
\* ends, what it returns and the calls it issues
build_server(params, result) ==
    LET missing == SelectSeq(_required_build_params,
                             LAMBDA param : Falsy(params, param))
    IN  IF DOMAIN params \ Range(_required_build_params) # {}
        THEN \* build_server() got an unexpected keyword argument
             [key |-> << >>, value |-> None, status |-> "TypeError",
              ret |-> NoHandle, calls |-> << >>]
        ELSE IF missing # << >>
        THEN [key |-> missing,
              value |-> "Server Build missing arguments: " \o Join(missing),
              status |-> "AttributeError", ret |-> NoHandle, calls |-> << >>]
        ELSE LET os_template == get_template(templates, [int |-> params["template"]])
             IN  IF os_template.status # "ok"
                 THEN [key |-> << >>, value |-> None, status |-> "LookupError",
                       ret |-> NoHandle, calls |-> <<GetTemplateInfo>>]
                 ELSE [key |-> << >>, value |-> result,
                       status |-> IF result = "successful" THEN "ok"
                                  ELSE "CacApiError",
                       ret |-> IF result = "successful"
                               THEN BuildResponse(result) ELSE NoHandle,
                       calls |-> <<GetTemplateInfo,
                                   ServerBuild(params["cpu"], params["ram"],
                                               params["disk"],
                                               os_template.template)>>]

BuildServer ==
    /\ pc = "start"
    /\ \E params \in BuildParams : \E result \in BuildResults :
        LET r == build_server(params, result)
        IN  /\ args' = params
            /\ calls' = r.calls
            /\ outcome' = Outcome("build_server", r.key, r.value, r.status, r.ret)
    /\ pc' = "done"
    /\ UNCHANGED <<servers, handle, setOrder, todo, nCommits, nExternal,
                   templates, resolved, environ, api>>

NextBuild == BuildServer

SpecBuild == InitBuild /\ [][NextBuild]_vars

----------------------------------------------------------------------------
(* main(): one run of the module.                                          *)

\* The choices of the state parameter
States ==
    {"active", "present", "started", "deleted", "absent", "stopped",
     "restarted"}

\* The values of the module's parameters
ModuleValues ==
    [state : States, runmode : {"safe", "normal"},
     server_id : {123456789, 999999999}, label : {"serverlabel", "newlabel"},
     fqdn : {"test.server.com"}, cpus : {1}, ram : {1024}, storage : {10},
     template : {5, 27}, api_key : {"secretkey"},
     api_user : {"user@example.com"}]

\* The parameters of a run: state and runmode have defaults, each other
\* parameter is given or reads as None (a key that is left out)
ModuleArgs ==
    {[k \in given \cup {"state", "runmode"} |-> v[k]] :
        given \in SUBSET {"server_id", "label", "fqdn", "cpus", "ram",
                          "storage", "template", "api_key", "api_user"},
        v \in ModuleValues}

GetResources == Call("get_resources", None, None)

\* The environments a run starts in: each of the two variables is set or
\* not
Environs ==
    {[k \in set |-> v[k]] :
        set \in SUBSET {"CAC_API_KEY", "CAC_API_USER"},
        v \in [CAC_API_KEY : {"envkey"}, CAC_API_USER : {"env@example.com"}]}

\* "not x" for a credential: None and '' are false
NotGiven(x) == x = None \/ x = ""

\* get_api(api_user, api_key): how it ends (status), the credential its
\* message names (value), the client it returns (api) and the calls it
\* issues
get_api(api_user, api_key, env, response) ==
    LET key  == IF NotGiven(api_key) THEN DictGet(env, "CAC_API_KEY", None)
                ELSE api_key
        user == IF NotGiven(api_user) THEN DictGet(env, "CAC_API_USER", None)
                ELSE api_user
    IN  IF NotGiven(api_key) /\ "CAC_API_KEY" \notin DOMAIN env
        THEN \* KeyError; "not api_key" holds in the message's test
             [status |-> "CacApiError", value |-> "api key", api |-> NoApi,
              calls |-> << >>]
        ELSE IF NotGiven(api_user) /\ "CAC_API_USER" \notin DOMAIN env
        THEN [status |-> "CacApiError", value |-> "api user", api |-> NoApi,
              calls |-> << >>]
        ELSE IF ~check_ok(response)
        THEN [status |-> "CacApiError", value |-> None, api |-> NoApi,
              calls |-> <<GetResources>>]
        ELSE [status |-> "ok", value |-> None, api |-> CACPy(user, key),
              calls |-> <<GetResources>>]

\* What the run reports: module.exit_json(changed=...), module.fail_json,
\* a traceback ("exception"), or nothing at all ("none")
Report(kind, changed) == [kind |-> kind, changed |-> changed]

\* The arguments that main passes to build_server, positionally
BuildArgsOf(params) ==
    LET names == [cpu |-> "cpus", ram |-> "ram", disk |-> "storage",
                  template |-> "template"]
    IN  [k \in {x \in DOMAIN names : names[x] \in DOMAIN params}
            |-> params[names[k]]]

\* Mutant of NeedsBuild: a server is built whether or not one was found.
NeedsBuild_Always(state, server) == state \in {"active", "present", "started"}

\* "if state in ('active', 'present', 'started'): if not server:"
NeedsBuild(state, server) ==
    state \in {"active", "present", "started"} /\ ~server.found

\* main(), from get_api to its last line: the build's result (key), the
\* report (value), the exception that ends it if one does (status), the
\* server it looked up (ret) and the calls it issues
main(params, env, response, result) ==
    LET server_id == IF "server_id" \in DOMAIN params
                     THEN StrOfInt(params["server_id"]) ELSE None
        label     == DictGet(params, "label", None)
        server    == get_server(servers, server_id, label, None)
        built     == build_server(BuildArgsOf(params), result)
        \* get_api(module.params.get('api_key'), module.params.get('api_user'))
        client    == get_api(DictGet(params, "api_key", None),
                             DictGet(params, "api_user", None), env, response)
    IN  IF client.status # "ok"
        THEN \* get_api raises CacApiError
             [key |-> None, value |-> Report("fail_json", FALSE),
              status |-> "CacApiError", ret |-> NoHandle, api |-> NoApi,
              calls |-> client.calls]
        ELSE IF server_id = None /\ label = None
        THEN \* get_server's assert; main catches CacApiError only
             [key |-> None, value |-> Report("exception", FALSE),
              status |-> "AssertionError", ret |-> NoHandle,
              api |-> client.api, calls |-> <<GetResources>>]
        ELSE IF NeedsBuild(params["state"], server)
        THEN [key |-> IF built.status \in {"ok", "CacApiError"}
                      THEN result ELSE None,
              value |-> CASE built.status = "ok" -> Report("exit_json", TRUE)
                          [] built.status = "CacApiError" -> Report("fail_json", FALSE)
                          [] OTHER -> Report("exception", FALSE),
              status |-> built.status, ret |-> server, api |-> client.api,
              calls |-> <<GetResources, GetServerInfo>> \o built.calls]
        ELSE \* main returns without exit_json or fail_json
             [key |-> None, value |-> Report("none", FALSE), status |-> "ok",
              ret |-> server, api |-> client.api,
              calls |-> <<GetResources, GetServerInfo>>]

\* The accounts that the module runs on: with and without the unlabelled
\* server
InitModule ==
    /\ servers \in {AccountServers, <<Server1, Server2>>}
    /\ handle = NoHandle
    /\ setOrder = << >>
    /\ pc = "start"
    /\ todo = {}
    /\ calls = << >>
    /\ outcome = Outcome("none", None, None, "ok", NoHandle)
    /\ nCommits = 0
    /\ nExternal = 0
    /\ args = NoArgs
    /\ templates = V1_LIST_TEMPLATES_RESPONSE
    /\ resolved = << >>
    /\ environ \in Environs
    /\ api = NoApi

Main ==
    /\ pc = "start"
    /\ \E params \in ModuleArgs : \E response \in Responses :
       \E result \in BuildResults :
        LET r == main(params, environ, response, result)
        IN  /\ args' = params
            /\ calls' = r.calls
            /\ outcome' = Outcome("module", r.key, r.value, r.status, r.ret)
            /\ api' = r.api
    /\ pc' = "done"
    /\ UNCHANGED <<servers, handle, setOrder, todo, nCommits, nExternal,
                   templates, resolved, environ>>

\* The credentials that get_api is called with
Credentials ==
    [api_user : {None, "", "user@example.com"},
     api_key : {None, "", "secretkey"}]

\* api = get_api(api_user, api_key), called on its own (as the tests do)
GetApi ==
    /\ pc = "start"
    /\ \E params \in Credentials : \E response \in Responses :
        LET r == get_api(params.api_user, params.api_key, environ, response)
        IN  /\ args' = params
            /\ calls' = r.calls
            /\ outcome' = Outcome("get_api", None, r.value, r.status, NoHandle)
            /\ api' = r.api
    /\ pc' = "done"
    /\ UNCHANGED <<servers, handle, setOrder, todo, nCommits, nExternal,
                   templates, resolved, environ>>

NextModule ==
    \/ Main
    \/ GetApi

SpecModule == InitModule /\ [][NextModule]_vars

\* The handle's edits with their order written down, and its commits
NextOrder ==
    \/ Lookup
    \/ SetInOrder
    \/ CommitBegin
    \/ CommitEdit
    \/ CommitReturn

SpecOrder == Init /\ [][NextOrder]_vars

----------------------------------------------------------------------------
(* Properties.                                                             *)

\* The positions of the log that hold a call of one of the given names
CallsNamed(names) == {i \in 1..Len(calls) : calls[i].name \in names}

\* The positions of the log that hold exactly this call
Occurrences(call) == {i \in 1..Len(calls) : calls[i] = call}

Pending == handle.updated_state

HandleSid == handle.current_state.sid

\* C1: set on a field outside {label, rdns, status, mode} fails with an
\* error, records no pending edit and issues no API call; the keys of the
\* pending-edit map are always among the four editable fields.
C1_OnlyEditableFieldsSet ==
    /\ handle.found => DOMAIN Pending \subseteq {"label", "rdns", "status", "mode"}
    /\ (outcome.op = "set" /\ outcome.key \notin {"label", "rdns", "status", "mode"})
          => /\ outcome.status = "AttributeError"
             /\ outcome.key \notin DOMAIN Pending
             /\ calls = << >>

C1_Witness ==
    /\ outcome.op = "set"
    /\ outcome.key = "cpu"
    /\ outcome.status = "AttributeError"
    /\ DOMAIN Pending = {"label"}

\* C2: set(f, v) with v the handle's last-fetched value of f records no
\* pending edit (the pending-edit set does not come to hold f).
C2_SetCurrentValueRecordsNoEdit ==
    (/\ handle.found
     /\ outcome.op = "set"
     /\ outcome.status = "ok"
     /\ outcome.value = handle.current_state[outcome.key])
        => outcome.key \notin DOMAIN Pending

\* The call the documentation gives for an edit of label, rdns or mode
RenameCallName(f) ==
    CASE f = "label" -> "rename_server"
      [] f = "rdns"  -> "change_hostname"
      [] f = "mode"  -> "set_run_mode"

\* C3: set issues no API call; a commit whose calls all return ok has
\* issued, for each of label, rdns and mode, exactly one call
\* (rename_server / change_hostname / set_run_mode with the pending value
\* and the handle's sid) when the field has a pending edit, and no call of
\* that name when it has none.
C3_OneCallPerPendingEdit ==
    /\ outcome.op = "set" => calls = << >>
    /\ (outcome.op = "commit" /\ outcome.status = "ok") =>
          \A f \in {"label", "rdns", "mode"} :
            IF f \in DOMAIN Pending
            THEN /\ Cardinality(CallsNamed({RenameCallName(f)})) = 1
                 /\ Cardinality(Occurrences(
                        Call(RenameCallName(f), Pending[f], HandleSid))) = 1
            ELSE CallsNamed({RenameCallName(f)}) = {}

C3_Witness ==
    /\ outcome.op = "commit"
    /\ outcome.status = "ok"
    /\ DOMAIN Pending = {"label", "rdns", "mode"}
    /\ Pending["label"] = "testing"
    /\ Occurrences(Call("rename_server", "testing", "123456789")) # {}
    /\ Occurrences(Call("change_hostname", "server.test.com", "123456789")) # {}
    /\ Occurrences(Call("set_run_mode", "normal", "123456789")) # {}

\* The power call the documentation gives for a status value
PowerCallName(v) ==
    CASE v \in {"Powered On", "on"}    -> "power_on_server"
      [] v \in {"Powered Off", "off"}  -> "power_off_server"
      [] v \in {"Restarted", "restart"} -> "reset_server"

\* C4: in a commit with a pending status edit of "Powered On"/"on",
\* "Powered Off"/"off" or "Restarted"/"restart", the only power call issued
\* is the one of that value (power_on_server / power_off_server /
\* reset_server, with the handle's sid), it is issued at most once, and
\* exactly once when the commit succeeds.
C4_StatusPowerCall ==
    (/\ outcome.op = "commit"
     /\ "status" \in DOMAIN Pending
     /\ Pending["status"] \in {"Powered On", "on", "Powered Off", "off",
                                "Restarted", "restart"})
        => /\ \A i \in CallsNamed(PowerCalls) :
                 calls[i] = Call(PowerCallName(Pending["status"]), None, HandleSid)
           /\ Cardinality(CallsNamed(PowerCalls)) <= 1
           /\ outcome.status = "ok" => Cardinality(CallsNamed(PowerCalls)) = 1

C4_Witness ==
    /\ outcome.op = "commit"
    /\ outcome.status = "ok"
    /\ DOMAIN Pending = {"status"}
    /\ Pending["status"] = "off"
    /\ calls = <<GetServerInfo, Call("power_off_server", None, "123456789"),
                 GetServerInfo>>

\* C5: a commit with a pending status edit of "Deleted" or "delete" issues
\* a server_delete call for the handle's sid.
C5_DeletedStatusIssuesDelete ==
    (/\ outcome.op = "commit"
     /\ outcome.status = "ok"
     /\ "status" \in DOMAIN Pending
     /\ Pending["status"] \in {"Deleted", "delete"})
        => Occurrences(Call("server_delete", None, HandleSid)) # {}

\* The edited field a modifying call stands for
FieldOfCall(name) ==
    CASE name = "rename_server"   -> "label"
      [] name = "change_hostname" -> "rdns"
      [] name = "set_run_mode"    -> "mode"
      [] OTHER                    -> "status"

\* The place of a field in the order of the first edits
SetPosition(f) == CHOOSE i \in 1..Len(setOrder) : setOrder[i] = f

\* C6: commit issues the calls of the pending edits in the order in which
\* the edits were first set: of two calls, the one issued first is the one
\* of the field set first.
C6_CallsInOrderOfEdits ==
    outcome.op = "commit" =>
        \A i, j \in CallsNamed(ModifyingCalls) :
            i < j => SetPosition(FieldOfCall(calls[i].name))
                        < SetPosition(FieldOfCall(calls[j].name))

\* The remote server shows what a call asked for
Applied(call) ==
    \E i \in 1..Len(servers) :
        /\ servers[i].sid = call.server_id
        /\ call.name = "rename_server"    => servers[i].label = call.arg
        /\ call.name = "change_hostname"  => servers[i].rdns = call.arg
        /\ call.name = "set_run_mode"     => servers[i].mode = call.arg
        /\ call.name = "power_on_server"  => servers[i].status = "Powered On"
        /\ call.name = "power_off_server" => servers[i].status = "Powered Off"

\* C7: a commit in which a call returned a status other than ok has ended
\* with CacApiError at that call: the log ends with the failing call, every
\* call of the log is the call of a different pending edit (no retry, no
\* compensating call), the server list was not fetched again and no record
\* was returned, and what the earlier calls asked for is still in place on
\* the remote server (as long as no other actor changed it).
C7_FailedCallAbortsCommit ==
    (outcome.op = "commit" /\ outcome.status = "CacApiError") =>
        /\ pc = "idle"
        /\ todo = {}
        /\ outcome.ret = NoHandle
        /\ CallsNamed({"get_server_info"}) = {1}
        /\ Len(calls) >= 2
        /\ \A i \in 2..Len(calls) :
              /\ FieldOfCall(calls[i].name) \in DOMAIN Pending
              /\ <<calls[i]>> = ModifyCalls(handle, FieldOfCall(calls[i].name),
                                            Pending[FieldOfCall(calls[i].name)])
              /\ \A j \in 2..Len(calls) : calls[j].name = calls[i].name => j = i
        /\ nExternal = 0 => \A i \in 2..(Len(calls) - 1) : Applied(calls[i])

C7_Witness ==
    /\ outcome.op = "commit"
    /\ outcome.status = "CacApiError"
    /\ nExternal = 0
    /\ nCommits = 1
    /\ DOMAIN Pending = {"label", "rdns", "mode"}
    /\ Len(calls) = 3
    /\ calls[2] = Call("rename_server", "testing", "123456789")
    /\ calls[3] = Call("set_run_mode", "normal", "123456789")
    /\ servers[1].label = "testing"
    /\ servers[1].mode = "Normal"
    /\ servers[1].rdns = "server.test.example"

\* C8: commit on a handle whose sid is unset fails with an error before
\* any API call: the server list is not fetched and no modifying call is
\* made.
C8_CommitWithoutSidFails ==
    (handle.found /\ outcome.op = "commit" /\ handle.current_state.sid = None) =>
        /\ outcome.status = "AttributeError"
        /\ calls = << >>
        /\ pc = "idle"

C8_Witness ==
    /\ handle.found
    /\ handle.current_state.sid = None
    /\ outcome.op = "commit"
    /\ outcome.status = "AttributeError"
    /\ DOMAIN Pending = {"label", "status"}

\* C9: a commit started while no server of the remote list has the
\* handle's sid fails with LookupError and does not enter the loop that
\* issues the modifying calls, whatever the pending edits are.
C9_MissingServerFailsCommit ==
    [][(/\ pc = "idle"
        /\ nCommits' = nCommits + 1
        /\ ~SidUnset(handle)
        /\ \A i \in 1..Len(servers) : servers[i].sid # HandleSid)
          => (outcome'.status = "LookupError" /\ pc' = "idle")]_vars

\* C10: a successful commit of an existing server's handle that has no
\* pending edit issues no modifying call and returns the handle as it is:
\* the same last-fetched state and no pending edit.
C10_EmptyCommitReturnsHandle ==
    (/\ outcome.op = "commit"
     /\ outcome.status = "ok"
     /\ Pending = EmptyDict
     /\ \E i \in 1..Len(servers) : servers[i].sid = HandleSid)
        => /\ CallsNamed(ModifyingCalls) = {}
           /\ outcome.ret = handle

\* C11: a commit in which every call succeeds returns a record fetched from
\* the server list after the last edit call, without pending edits; and
\* for a handle of a "Powered On" server whose only edit is status =
\* "Powered Off", the commit issues exactly one power_off_server call with
\* the handle's sid and the returned record's status is "Powered Off".
C11_CommitReturnsFreshRecord ==
    (outcome.op = "commit" /\ outcome.status = "ok")
        => /\ calls # << >>
           /\ calls[Len(calls)] = GetServerInfo
           /\ outcome.ret.found
           /\ outcome.ret.updated_state = EmptyDict
           /\ (/\ handle.current_state.status = "Powered On"
               /\ DOMAIN Pending = {"status"}
               /\ Pending["status"] = "Powered Off")
                 => /\ Cardinality(CallsNamed(ModifyingCalls)) = 1
                    /\ Cardinality(Occurrences(
                          Call("power_off_server", None, HandleSid))) = 1
                    /\ outcome.ret.current_state.status = "Powered Off"

\* C12: delete() on a handle that has a sid issues exactly one
\* server_delete(server_id=sid) call and nothing else, leaves the handle
\* and its pending edits as they were, and fails with CacApiError exactly
\* when the response's status is not "ok".
C12_DeleteIssuesOneCall ==
    [][(outcome'.op = "delete" /\ ~SidUnset(handle))
         => /\ calls' = <<Call("server_delete", None, HandleSid)>>
            /\ handle' = handle
            /\ outcome'.status = (IF outcome'.value = "ok" THEN "ok" ELSE "CacApiError")
            /\ outcome'.status # "ok" => servers' = servers]_vars

C12_Witness ==
    /\ outcome.op = "delete"
    /\ outcome.status = "ok"
    /\ Pending # EmptyDict
    /\ \A i \in 1..Len(servers) : servers[i].sid # HandleSid

\* The key is in the last-fetched map: the records of the server list
\* carry every key, null where the account has no value.
InCurrentState(h, item) ==
    /\ item \in DOMAIN h.current_state
    /\ (h.current_state[item] # None \/ h.current_state.sid # None)

FirstIndex(list, P(_)) ==
    LET hits == {i \in 1..Len(list) : P(list[i])}
    IN  IF hits = {} THEN 0 ELSE CHOOSE i \in hits : \A j \in hits : i <= j

\* The record a lookup returns for index i of the list; absent for 0
RecordAt(list, i) == IF i = 0 THEN NoHandle ELSE CACServer(list[i])

\* The sid, the label and the servername of list[i] occur once in the list
UniqueValues(list, i) ==
    \A j \in 1..Len(list) :
        j # i => /\ list[j].sid # list[i].sid
                 /\ list[j].label # list[i].label
                 /\ list[j].servername # list[i].servername

\* C14: a lookup returns the first entry of the list whose sid equals the
\* given id, or whose servername equals the given name, or whose label
\* equals the given label; and a server whose sid, label and servername
\* are unique in the list is what the lookup by its sid alone, by its
\* label alone and by its servername alone returns.
C14_FirstMatchSameRecord ==
    (outcome.op = "get_server" /\ outcome.status = "ok")
        => /\ LET given(s) == \/ s.sid = args.server_id
                              \/ s.servername = args.server_name
                              \/ s.label = args.label
              IN  outcome.ret = RecordAt(servers, FirstIndex(servers, given))
           /\ \A i \in 1..Len(servers) :
                 (/\ UniqueValues(servers, i)
                  /\ \/ args = [server_id |-> servers[i].sid, label |-> None,
                                server_name |-> None]
                     \/ /\ servers[i].label # None
                        /\ args = [server_id |-> None, label |-> servers[i].label,
                                   server_name |-> None]
                     \/ args = [server_id |-> None, label |-> None,
                                server_name |-> servers[i].servername])
                    => outcome.ret = CACServer(servers[i])

\* C15: a lookup returns absent when no server of the list equals a
\* criterion that the caller supplied; a criterion left unset matches no
\* server, not even one whose label or servername is null.
C15_UnsetCriterionMatchesNothing ==
    (outcome.op = "get_server" /\ outcome.status = "ok")
        => LET supplied(s) ==
                   \/ args.server_id # None /\ s.sid = args.server_id
                   \/ args.server_name # None /\ s.servername = args.server_name
                   \/ args.label # None /\ s.label = args.label
           IN  outcome.ret = RecordAt(servers, FirstIndex(servers, supplied))

\* C16: given a server_id, the module selects the server with that sid, or
\* none if there is no such server, whatever the label; not given a
\* server_id, it selects the first server whose label is the given label.
C16_ServerIdSelectsThatSid ==
    (outcome.op = "main" /\ outcome.status = "ok")
        => IF "server_id" \in DOMAIN args
           THEN LET bySid(s) == s.sid = StrOfInt(args["server_id"])
                IN  outcome.ret = RecordAt(servers, FirstIndex(servers, bySid))
           ELSE LET byLabel(s) == s.label = args["label"]
                IN  outcome.ret = RecordAt(servers, FirstIndex(servers, byLabel))

\* The decimal form of the int ids that are looked up
Decimal(n) == CASE n = 26 -> "26" [] n = 27 -> "27" [] n = 5 -> "5"

\* The string that a lookup value is matched as: the decimal form of an
\* int, the id of a TemplateRef, the string itself
MatchedAs(lookup) ==
    IF "template" \in DOMAIN lookup THEN lookup.template.template_id
    ELSE IF "int" \in DOMAIN lookup THEN Decimal(lookup.int)
    ELSE lookup.str

\* The resolutions of the history that were given a lookup value
Resolutions == {k \in 1..Len(resolved) : "none" \notin DOMAIN resolved[k].lookup}

\* Every resolution returns the (description, id) pair of the first catalog
\* entry whose id or description equals the lookup value, and an int
\* resolves like its decimal string.
ExactFirstMatch ==
    /\ \A k \in Resolutions :
          LET entry(e) == \/ e.ce_id = MatchedAs(resolved[k].lookup)
                          \/ e.name = MatchedAs(resolved[k].lookup)
              first    == FirstIndex(templates, entry)
          IN  IF first = 0
              THEN resolved[k].status = "LookupError"
              ELSE /\ resolved[k].status = "ok"
                   /\ resolved[k].template.desc = templates[first].name
                   /\ resolved[k].template.template_id = templates[first].ce_id
    /\ \A k1, k2 \in Resolutions :
          (/\ "int" \in DOMAIN resolved[k1].lookup
           /\ "str" \in DOMAIN resolved[k2].lookup
           /\ resolved[k2].lookup.str = Decimal(resolved[k1].lookup.int))
             => /\ resolved[k1].status = resolved[k2].status
                /\ resolved[k1].template = resolved[k2].template

\* A TemplateRef resolves to an equal TemplateRef, and the id and the
\* description of a catalog entry resolve to equal results.
RoundTrip ==
    /\ \A k \in Resolutions :
          "template" \in DOMAIN resolved[k].lookup
             => /\ resolved[k].status = "ok"
                /\ resolved[k].template = resolved[k].lookup.template
    /\ \A k1, k2 \in Resolutions :
          (/\ "str" \in DOMAIN resolved[k1].lookup
           /\ "str" \in DOMAIN resolved[k2].lookup
           /\ \E i \in 1..Len(templates) :
                 /\ resolved[k1].lookup.str = templates[i].ce_id
                 /\ resolved[k2].lookup.str = templates[i].name)
             => /\ resolved[k1].status = "ok"
                /\ resolved[k1].template = resolved[k2].template

\* No two entries of the catalog share an id or a description, and no
\* description is the id of another entry
DistinctKeys(catalog) ==
    \A i, j \in 1..Len(catalog) :
        i # j => /\ catalog[i].ce_id # catalog[j].ce_id
                 /\ catalog[i].name # catalog[j].name
                 /\ catalog[i].ce_id # catalog[j].name

\* C17 as stated: exact first match, an int like its decimal string, and
\* on every catalog the round trip of a TemplateRef and equal results for
\* an entry's id and its description.
C17_ResolveRoundTripAnyCatalog ==
    ExactFirstMatch /\ RoundTrip

\* C17, amended: exact first match and an int like its decimal string on
\* every catalog; the round trip of a TemplateRef and equal results for an
\* entry's id and its description on the catalogs whose ids and
\* descriptions are all different.
C17_ResolveRoundTripDistinctKeys ==
    ExactFirstMatch /\ (DistinctKeys(templates) => RoundTrip)

C17_Witness ==
    /\ Len(resolved) = 2
    /\ Len(templates) = 2
    /\ DistinctKeys(templates)
    /\ resolved[1].lookup = [int |-> 27]
    /\ resolved[1].status = "ok"
    /\ resolved[2].lookup = [template |-> resolved[1].template]
    /\ resolved[2].template = CACTemplate("Ubuntu-14.04.1-LTS-64bit", "27")

\* C18: over the resolutions and lookups of one process the catalog is
\* fetched (get_template_info) at most once.
C18_CatalogFetchedAtMostOnce ==
    Cardinality({i \in 1..Len(calls) : calls[i] = GetTemplateInfo}) <= 1

\* The sizes of RAM that a server can be built with
RamSizes ==
    {512, 1024, 2048, 3072, 4096, 6144, 7168, 8192, 12288, 16384, 20480,
     24576, 28672, 32768}

\* C19: build_server with cpu outside 1..16 or ram outside the list of
\* sizes fails with an invalid-argument error and issues no API call.
C19_BuildValidatesCpuAndRam ==
    (/\ outcome.op = "build_server"
     /\ \/ "cpu" \in DOMAIN args /\ args["cpu"] \notin 1..16
        \/ "ram" \in DOMAIN args /\ args["ram"] \notin RamSizes)
        => /\ outcome.status \in {"AttributeError", "TypeError"}
           /\ calls = << >>

\* C20: build_server with one of cpu, ram, disk, template, label missing
\* fails with an invalid-argument error that names exactly the missing
\* ones, and issues no API call.
C20_BuildNamesMissingArguments ==
    LET missing == {param \in {"cpu", "ram", "disk", "template", "label"} :
                       Falsy(args, param)}
    IN  (outcome.op = "build_server" /\ missing # {})
            => /\ outcome.status = "AttributeError"
               /\ Range(outcome.key) = missing
               /\ calls = << >>

\* The positions of the log that hold a server_build call
BuildCalls == CallsNamed({"server_build"})

\* The arguments of a build that the checks of build_server let through
ValidBuildArgs ==
    /\ {"cpu", "ram", "disk", "template"} \subseteq DOMAIN args
    /\ args["cpu"] \in 1..16
    /\ args["ram"] \in RamSizes
    /\ args["template"] = 27

C22_BuildWithoutWait ==
    (/\ outcome.op = "build_server"
     /\ ValidBuildArgs
     /\ "label" \in DOMAIN args
     /\ "wait" \in DOMAIN args => ~args["wait"])
        => /\ outcome.status \in {"ok", "CacApiError"}
           /\ outcome.status = "ok"
                 => /\ calls = <<GetTemplateInfo,
                                 ServerBuild(args["cpu"], args["ram"],
                                             args["disk"], "27")>>
                    /\ outcome.ret = BuildResponse("successful")

\* C23: a build with valid arguments, a label and wait true reaches the
\* build call; when that call succeeds, the server list is polled after it
\* and the server is renamed to the label.
C23_BuildWithWaitPolls ==
    (/\ outcome.op = "build_server"
     /\ ValidBuildArgs
     /\ "label" \in DOMAIN args
     /\ "wait" \in DOMAIN args /\ args["wait"])
        => /\ outcome.status \in {"ok", "CacApiError"}
           /\ outcome.status = "ok"
                 => /\ \E i \in BuildCalls : \E j \in Occurrences(GetServerInfo) : i < j
                    /\ CallsNamed({"rename_server"}) # {}

\* The run looked a server up and found one
Found == outcome.op = "module" /\ outcome.ret.found

FoundSid == outcome.ret.current_state.sid

\* C24: a run with state absent or deleted that finds a server issues
\* server_delete(server_id=sid) for it and reports changed=true.
C24_AbsentDeletesServer ==
    (Found /\ args["state"] \in {"absent", "deleted"})
        => /\ Occurrences(Call("server_delete", None, FoundSid)) # {}
           /\ outcome.value = Report("exit_json", TRUE)

\* C25: a run that finds a server applies each desired value that differs
\* from the current one and reports changed=true: fqdn by change_hostname,
\* runmode by set_run_mode, state stopped on a powered-on server by
\* power_off_server.
C25_ModuleAppliesEdits ==
    Found
        => /\ ("fqdn" \in DOMAIN args /\ args["fqdn"] # outcome.ret.current_state.rdns)
                 => /\ Occurrences(Call("change_hostname", args["fqdn"], FoundSid)) # {}
                    /\ outcome.value = Report("exit_json", TRUE)
           /\ args["runmode"] # outcome.ret.current_state.mode
                 => /\ Occurrences(Call("set_run_mode", args["runmode"], FoundSid)) # {}
                    /\ outcome.value = Report("exit_json", TRUE)
           /\ (args["state"] = "stopped" /\ outcome.ret.current_state.status = "Powered On")
                 => /\ Occurrences(Call("power_off_server", None, FoundSid)) # {}
                    /\ outcome.value = Report("exit_json", TRUE)

\* C26: every run ends with a report that carries the changed flag, and a
\* run that finds a server and is asked for nothing but what the server
\* has issues no modifying call and reports changed=false.
C26_EveryRunReports ==
    outcome.op = "module"
        => /\ outcome.value.kind \in {"exit_json", "fail_json"}
           /\ (/\ outcome.ret.found
               /\ "fqdn" \notin DOMAIN args
               /\ "label" \in DOMAIN args => args["label"] = outcome.ret.current_state.label
               /\ args["state"] = "present")
                 => /\ CallsNamed(ModifyingCalls \cup {"server_build", "server_delete"}) = {}
                    /\ outcome.value = Report("exit_json", FALSE)

\* The run got as far as the lookup
LookedUp == outcome.op = "module" /\ Occurrences(GetServerInfo) # {}

StatusWords ==
    {"Powered On", "on", "Powered Off", "off", "Restarted", "restart",
     "Deleted", "delete"}

\* C28: set accepts a status value that is none of the documented words as
\* a pending edit; a commit with that edit issues no power or delete call
\* for it, does not fail because of it, and when it succeeds has issued
\* the call of every other pending edit.
C28_UnknownStatusIssuesNoCall ==
    /\ (/\ outcome.op = "set"
        /\ outcome.key = "status"
        /\ outcome.value \notin StatusWords)
          => /\ outcome.status = "ok"
             /\ "status" \in DOMAIN Pending
             /\ Pending["status"] = outcome.value
    /\ (/\ outcome.op = "commit"
        /\ "status" \in DOMAIN Pending
        /\ Pending["status"] \notin StatusWords)
          => /\ CallsNamed(PowerCalls \cup {"server_delete"}) = {}
             /\ DOMAIN Pending = {"status"} => outcome.status # "CacApiError"
             /\ outcome.status = "ok"
                   => \A f \in DOMAIN Pending \ {"status"} :
                        Cardinality(Occurrences(
                            Call(RenameCallName(f), Pending[f], HandleSid))) = 1

C28_Witness ==
    /\ outcome.op = "commit"
    /\ outcome.status = "ok"
    /\ DOMAIN Pending = {"status", "label"}
    /\ Pending["status"] = "Pending On"
    /\ calls = <<GetServerInfo, Call("rename_server", "testing", "123456789"),
                 GetServerInfo>>

\* The TemplateRef of the catalog entry that matches a server's template
\* value, as the resolver returns it
ResolvedTemplate(value) == get_template(templates, [str |-> value]).template

\* C29: the record of a successful lookup carries a template that is set
\* as the (description, id) pair of the catalog entry matching it.
C29_LookupResolvesTemplate ==
    (/\ outcome.op = "get_server"
     /\ outcome.status = "ok"
     /\ outcome.ret.found)
        => \A i \in 1..Len(servers) :
             (servers[i].sid = outcome.ret.current_state.sid
                 /\ servers[i].template # None)
                => outcome.ret.current_state.template
                      = ResolvedTemplate(servers[i].template)

\* The lookup value of resolution k is unset
Unset(k) == "none" \in DOMAIN resolved[k].lookup

\* The lookup value of resolution k is the empty string
EmptyString(k) ==
    "str" \in DOMAIN resolved[k].lookup /\ resolved[k].lookup.str = ""

\* No entry of the catalog has the lookup value of resolution k as its id
\* or its description
NoEntryFor(k) ==
    \A i \in 1..Len(templates) :
        /\ templates[i].ce_id # MatchedAs(resolved[k].lookup)
        /\ templates[i].name # MatchedAs(resolved[k].lookup)

\* The catalog fetches of the process
Fetches == Cardinality(Occurrences(GetTemplateInfo))

----------------------------------------------------------------------------
\* C31: a build with valid arguments and wait true, whose server is still
\* "Installing" in the server list, ends without an error other than that
\* of a failed build: it polls the list at most wait_timeout times, issues
\* no rename and returns the build response.
C31_WaitTimesOutWithResponse ==
    (/\ outcome.op = "build_server"
     /\ ValidBuildArgs
     /\ "wait" \in DOMAIN args /\ args["wait"]
     /\ "wait_timeout" \in DOMAIN args
     /\ \A i \in 1..Len(servers) : servers[i].status # "Powered On"
                                     \/ servers[i].sid # "012345678")
        => /\ outcome.status \in {"ok", "CacApiError"}
           /\ Cardinality(Occurrences(GetServerInfo)) <= args["wait_timeout"]
           /\ CallsNamed({"rename_server"}) = {}
           /\ outcome.status = "ok"
                 => outcome.ret = BuildResponse("successful")

----------------------------------------------------------------------------
\* A credential that the caller passed (neither None nor '')
Passed(name) == name \in DOMAIN args /\ ~NotGiven(args[name])

\* The credential the client is to hold: the caller's, else the
\* environment's, else None
Credential(name, variable) ==
    IF Passed(name) THEN args[name] ELSE DictGet(environ, variable, None)

\* C32: after get_api, called on its own or by a run of the module, the
\* client holds the caller's api_user and api_key, each taken from its
\* environment variable when it is not passed; when one of them is in
\* neither place the run fails with no API call; otherwise get_resources is
\* the first call and a response that is not ok fails the run.
C32_ClientHoldsCallersCredentials ==
    outcome.op \in {"get_api", "module"}
        => LET user == Credential("api_user", "CAC_API_USER")
               key  == Credential("api_key", "CAC_API_KEY")
           IN  IF user = None \/ key = None
               THEN /\ ~api.found
                    /\ calls = << >>
                    /\ outcome.status = "CacApiError"
               ELSE /\ calls # << >> /\ calls[1] = GetResources
                    /\ api.found => api = CACPy(user, key)
                    /\ ~api.found => /\ outcome.status = "CacApiError"
                                     /\ calls = <<GetResources>>

\* The same for get_api called on its own
C32_GetApiAlone ==
    outcome.op = "get_api" => C32_ClientHoldsCallersCredentials

----------------------------------------------------------------------------
\* The remote server that has the handle's sid is still listed
StillListed == \E i \in 1..Len(servers) : servers[i].sid = HandleSid

\* The label that the remote list holds for the handle's sid
RemoteLabel(list) ==
    LET i == CHOOSE i \in 1..Len(list) : list[i].sid = HandleSid
    IN  list[i].label

\* A commit of the handle of a listed server, whose calls all returned ok
\* while another actor changed the server
CommittedBesideOtherActor ==
    /\ outcome.op = "commit"
    /\ outcome.status = "ok"
    /\ ~SidUnset(handle)
    /\ StillListed
    /\ nExternal > 0

\* The step of commit's loop that issues the rename call and gets ok, while
\* the remote label is the other actor's
RenameOverOtherActor ==
    /\ pc = "commit"
    /\ StillListed
    /\ RemoteLabel(servers) = "renamed"
    /\ Len(calls') = Len(calls) + 1
    /\ calls'[Len(calls')].name = "rename_server"
    /\ outcome' = outcome

\* C33: with another actor changing the handle's server while it stays
\* listed, commit raises neither a not-found nor a conflict error: a commit
\* whose calls all return ok has issued the call of every pending edit
\* once, and its rename call replaces the other actor's label by the
\* handle's pending label.
C33_CommitOverwritesOtherActor ==
    /\ [](/\ (outcome.op = "commit" /\ ~SidUnset(handle) /\ StillListed)
                => outcome.status \in {"running", "ok", "CacApiError"}
          /\ CommittedBesideOtherActor
                => /\ \A f \in DOMAIN Pending :
                        \A c \in Range(ModifyCalls(handle, f, Pending[f])) :
                            Cardinality(Occurrences(c)) = 1
                   /\ Cardinality(CallsNamed(ModifyingCalls))
                        = Cardinality({f \in DOMAIN Pending :
                                ModifyCalls(handle, f, Pending[f]) # << >>}))
    /\ [][RenameOverOtherActor
            => (StillListed' /\ RemoteLabel(servers') = Pending["label"])]_vars

C33_Witness ==
    /\ CommittedBesideOtherActor
    /\ nExternal = 1
    /\ nCommits = 1
    /\ handle.current_state.label = "serverlabel"
    /\ DOMAIN Pending = {"label", "mode"}
    /\ Pending["label"] = "testing"
    /\ calls = <<GetServerInfo, Call("set_run_mode", "normal", "123456789"),
                 Call("rename_server", "testing", "123456789"), GetServerInfo>>
    /\ RemoteLabel(servers) = "testing"
    /\ outcome.ret.current_state.label = "testing"

----------------------------------------------------------------------------
\* A step of commit: its beginning, or a step taken inside it by the
\* committing process
CommitStep == nCommits' # nCommits \/ (pc = "commit" /\ nExternal' = nExternal)

\* commit is called on a handle whose last commit ended with ok
CommitAgain ==
    /\ outcome.op = "commit"
    /\ outcome.status = "ok"
    /\ nCommits' = nCommits + 1

\* C34: no step of commit changes the handle; a commit called after a
\* successful one finds the same pending edits and, once past its checks,
\* has all of them to send again; every later commit that ends with ok has
\* issued the call of each pending edit once more (reset_server for a
\* pending "Restarted"), and the record it returns has no pending edit.
C34_CommitLeavesHandleAsItIs ==
    /\ [][CommitStep => handle' = handle]_vars
    /\ [][CommitAgain => /\ Pending # EmptyDict => handle'.updated_state # EmptyDict
                         /\ handle'.current_state = handle.current_state
                         /\ pc' = "commit" => todo' = DOMAIN Pending]_vars
    /\ []((/\ outcome.op = "commit"
           /\ outcome.status = "ok"
           /\ nCommits >= 2)
             => /\ \A f \in DOMAIN Pending :
                     \A c \in Range(ModifyCalls(handle, f, Pending[f])) :
                         Cardinality(Occurrences(c)) = 1
                /\ ("status" \in DOMAIN Pending
                        /\ Pending["status"] \in {"Restarted", "restart"})
                     => Cardinality(Occurrences(
                            Call("reset_server", None, HandleSid))) = 1
                /\ outcome.ret.found => outcome.ret.updated_state = EmptyDict)

\* The second commit of a handle whose only edit is the label: the first
\* commit's rename was applied (the second one's was refused), and the
\* second commit sent the rename again
C34_Witness ==
    /\ outcome.op = "commit"
    /\ outcome.status = "CacApiError"
    /\ nCommits = 2
    /\ nExternal = 0
    /\ handle.current_state.label = "serverlabel"
    /\ Pending = [label |-> "testing"]
    /\ calls = <<GetServerInfo, Call("rename_server", "testing", "123456789")>>
    /\ servers[1].label = "testing"

----------------------------------------------------------------------------
\* The last step of a commit whose server another actor has removed from
\* the list: the loop is over and the list is fetched again
ReturnAfterRemoval ==
    /\ pc = "commit"
    /\ todo = {}
    /\ pc' = "idle"
    /\ ~StillListed

\* C35: a commit that got past its existence check goes through all its
\* pending edits whether or not the server is still listed, each call
\* naming the handle's sid; and when the server is not listed at the final
\* fetch, the commit ends without an error and returns no record.
C35_RemovedServerCommitReturnsAbsent ==
    /\ []((outcome.op = "commit" /\ outcome.status = "ok")
            => /\ \A f \in DOMAIN Pending :
                    \A c \in Range(ModifyCalls(handle, f, Pending[f])) :
                        Cardinality(Occurrences(c)) = 1
               /\ \A i \in CallsNamed(ModifyingCalls) :
                    calls[i].server_id = HandleSid)
    /\ [][ReturnAfterRemoval
            => (outcome'.status = "ok" /\ ~outcome'.ret.found)]_vars

====
